---- MODULE Spec2Model ----
(***************************************************************************)
(* Gift-Scheduler: the data-integrity control plane.                       *)
(*                                                                         *)
(* The SQLite store, the audit ledger (logAudit), the purchase gate        *)
(* (POST /api/orders), the emergency-stop switch (POST                     *)
(* /api/settings/emergency-stop), the generic setting update, the order    *)
(* status update, approvals, event deletion, and backup export/restore.    *)
(*                                                                         *)
(* Every handler is a list of SQL statements.  better-sqlite3 runs each    *)
(* statement in autocommit mode unless the handler wraps them in           *)
(* db.transaction; a statement may raise (constraint violation or a        *)
(* storage failure), which ends the handler at that statement.             *)
(*                                                                         *)
(* Tables and columns that no modelled handler reads are left out:         *)
(* contacts, budgets, budget_overrides, card_messages, autonomy_settings,  *)
(* users, and the free-text / timestamp columns of the modelled tables.    *)
(***************************************************************************)
EXTENDS Integers, Sequences, FiniteSets, TLC

(***************************************************************************)
(* Bounds                                                                  *)
(***************************************************************************)
\* number of store-changing requests after which a run takes no more requests
MaxOps == 2

(***************************************************************************)
(* Schema (database.js initializeSchema) and backup tables (backup.js)     *)
(***************************************************************************)
NULL == "NULL"

EXPORT_TABLES ==
  << "events", "gift_recommendations", "approvals", "orders",
     "notifications", "global_settings", "audit_log" >>

Tables == { EXPORT_TABLES[i] : i \in 1..Len(EXPORT_TABLES) }

\* no table protected: restore clears and rewrites the ledger as well
RESTORE_PROTECTED_TABLES_None == { }

RESTORE_PROTECTED_TABLES == { "audit_log" }

ALLOWED_COLUMNS ==
  [ events               |-> { "id", "lead_time_days", "status" },
    gift_recommendations |-> { "id", "event_id", "status" },
    approvals            |-> { "id", "event_id", "gift_recommendation_id", "status" },
    orders               |-> { "id", "gift_recommendation_id", "event_id",
                               "approval_id", "status" },
    notifications        |-> { "id", "event_id", "order_id", "type", "read" },
    global_settings      |-> { "key", "value" },
    audit_log            |-> { "id", "action", "entity_type", "entity_id", "details" } ]

ALLOWED_SETTINGS_KEYS == { "emergency_stop", "default_lead_time_days" }

PrimaryKey(t) == IF t = "global_settings" THEN "key" ELSE "id"

\* DEFAULT clauses: the value a column takes when an INSERT does not name it
ColumnDefault ==
  [ events               |-> [ id |-> NULL, lead_time_days |-> "14", status |-> "upcoming" ],
    gift_recommendations |-> [ id |-> NULL, event_id |-> NULL, status |-> "recommended" ],
    approvals            |-> [ id |-> NULL, event_id |-> NULL,
                               gift_recommendation_id |-> NULL, status |-> NULL ],
    orders               |-> [ id |-> NULL, gift_recommendation_id |-> NULL,
                               event_id |-> NULL, approval_id |-> NULL,
                               status |-> "pending" ],
    notifications        |-> [ id |-> NULL, event_id |-> NULL, order_id |-> NULL,
                               type |-> NULL, read |-> "0" ],
    global_settings      |-> [ key |-> NULL, value |-> NULL ],
    audit_log            |-> [ id |-> NULL, action |-> NULL, entity_type |-> NULL,
                               entity_id |-> NULL, details |-> { } ] ]

\* NOT NULL columns
NotNullColumns ==
  [ events               |-> { },
    gift_recommendations |-> { "event_id" },
    approvals            |-> { "event_id", "status" },
    orders               |-> { "gift_recommendation_id", "event_id" },
    notifications        |-> { "type" },
    global_settings      |-> { "value" },
    audit_log            |-> { "action", "entity_type" } ]

\* CHECK(col IN (...)) constraints; a NULL passes a CHECK
CheckValues ==
  [ events               |-> [ status |-> { "upcoming", "in_progress", "completed", "missed" } ],
    gift_recommendations |-> [ status |-> { "recommended", "approved", "rejected", "purchased" } ],
    approvals            |-> [ status |-> { "pending", "approved", "rejected" } ],
    orders               |-> [ status |-> { "pending", "ordered", "shipped", "delivered",
                                            "issue", "cancelled" } ],
    notifications        |-> [ type |-> { "event_reminder", "approval_needed", "delivery_issue",
                                          "delivery_confirmed", "budget_warning",
                                          "emergency_stop" } ],
    global_settings      |-> [ value |-> { } ],
    audit_log            |-> [ action |-> { } ] ]

CheckedColumn ==
  [ events |-> "status", gift_recommendations |-> "status", approvals |-> "status",
    orders |-> "status", notifications |-> "type",
    global_settings |-> "none", audit_log |-> "none" ]

\* FOREIGN KEY clauses: child column, parent table, ON DELETE action
ForeignKeys ==
  [ events               |-> { },
    gift_recommendations |-> { [ col |-> "event_id", ref |-> "events", act |-> "CASCADE" ] },
    approvals            |-> { [ col |-> "event_id", ref |-> "events", act |-> "CASCADE" ],
                               [ col |-> "gift_recommendation_id",
                                 ref |-> "gift_recommendations", act |-> "SET NULL" ] },
    orders               |-> { [ col |-> "gift_recommendation_id",
                                 ref |-> "gift_recommendations", act |-> "NO ACTION" ],
                               [ col |-> "event_id", ref |-> "events", act |-> "NO ACTION" ],
                               [ col |-> "approval_id", ref |-> "approvals",
                                 act |-> "NO ACTION" ] },
    notifications        |-> { [ col |-> "event_id", ref |-> "events", act |-> "SET NULL" ],
                               [ col |-> "order_id", ref |-> "orders", act |-> "SET NULL" ] },
    global_settings      |-> { },
    audit_log            |-> { } ]

(***************************************************************************)
(* SQL statements against a store  db : [Tables -> set of rows]            *)
(***************************************************************************)
Ids(db, t) == { r[PrimaryKey(t)] : r \in db[t] }

CheckOk(t, row) ==
  \/ CheckedColumn[t] = "none"
  \/ row[CheckedColumn[t]] = NULL
  \/ row[CheckedColumn[t]] \in CheckValues[t][CheckedColumn[t]]

\* PRIMARY KEY / NOT NULL / CHECK violation of a candidate row
RowViolation(db, t, row) ==
  \/ row[PrimaryKey(t)] \in Ids(db, t)
  \/ \E c \in NotNullColumns[t] : row[c] = NULL
  \/ ~CheckOk(t, row)

\* immediate foreign-key violation of a candidate row
FkViolation(db, t, row) ==
  \E k \in ForeignKeys[t] : row[k.col] # NULL /\ row[k.col] \notin Ids(db, k.ref)

\* INSERT [OR IGNORE] INTO t ...
ExecInsert(db, s, fk) ==
  IF RowViolation(db, s.table, s.row)
  THEN [ db |-> db, err |-> ~s.orIgnore ]
  ELSE IF fk /\ FkViolation(db, s.table, s.row)
  THEN [ db |-> db, err |-> TRUE ]
  ELSE [ db |-> [ db EXCEPT ![s.table] = @ \cup { s.row } ], err |-> FALSE ]

\* UPDATE t SET col = val WHERE <pk> = id
ExecUpdate(db, s) ==
  [ db  |-> [ db EXCEPT ![s.table] =
                { IF r[PrimaryKey(s.table)] = s.id THEN [ r EXCEPT ![s.col] = s.val ] ELSE r
                  : r \in @ } ],
    err |-> FALSE ]

\* DELETE FROM t  (restore's delete phase; children are cleared before parents)
ExecDeleteAll(db, s) ==
  [ db |-> [ db EXCEPT ![s.table] = { } ], err |-> FALSE ]

\* DELETE FROM events WHERE id = ?  with the schema's ON DELETE actions
ExecDeleteEvent(db, s, fk) ==
  LET gone_gifts     == { g \in db["gift_recommendations"] : g.event_id = s.id }
      gone_approvals == { a \in db["approvals"] : a.event_id = s.id }
      gift_ids       == { g.id : g \in gone_gifts }
      approval_ids   == { a.id : a \in gone_approvals }
      blocked        == \E o \in db["orders"] :
                           \/ o.event_id = s.id
                           \/ o.gift_recommendation_id \in gift_ids
                           \/ o.approval_id \in approval_ids
      cascaded ==
        [ db EXCEPT
            !["events"] = { e \in @ : e.id # s.id },
            !["gift_recommendations"] = @ \ gone_gifts,
            !["approvals"] =
               { IF a.gift_recommendation_id \in gift_ids
                 THEN [ a EXCEPT !.gift_recommendation_id = NULL ] ELSE a
                 : a \in (@ \ gone_approvals) },
            !["notifications"] =
               { IF n.event_id = s.id THEN [ n EXCEPT !.event_id = NULL ] ELSE n
                 : n \in @ } ]
  IN  IF ~fk THEN [ db |-> [ db EXCEPT !["events"] = { e \in @ : e.id # s.id } ],
                    err |-> FALSE ]
      ELSE IF blocked THEN [ db |-> db, err |-> TRUE ]
      ELSE [ db |-> cascaded, err |-> FALSE ]

\* UPDATE events SET lead_time_days = COALESCE(?, lead_time_days),
\*                   status = COALESCE(?, status) WHERE id = ?
\* (a column of INTEGER affinity keeps a text that is no number as text)
ExecUpdateEvent(db, s) ==
  LET upd(r) == [ r EXCEPT !.lead_time_days = IF s.lead = NULL THEN @ ELSE s.lead,
                           !.status = IF s.status = NULL THEN @ ELSE s.status ]
  IN  IF \E r \in db["events"] : r.id = s.id /\ ~CheckOk("events", upd(r))
      THEN [ db |-> db, err |-> TRUE ]
      ELSE [ db  |-> [ db EXCEPT !["events"] =
                         { IF r.id = s.id THEN upd(r) ELSE r : r \in @ } ],
             err |-> FALSE ]

\* INSERT INTO global_settings (key, value) ... ON CONFLICT(key) DO UPDATE SET value
ExecUpsert(db, s) ==
  [ db  |-> [ db EXCEPT !["global_settings"] =
                { r \in @ : r.key # s.key } \cup { [ key |-> s.key, value |-> s.value ] } ],
    err |-> FALSE ]

Exec(db, s, fk) ==
  CASE s.kind = "insert"       -> ExecInsert(db, s, fk)
    [] s.kind = "upsert"       -> ExecUpsert(db, s)
    [] s.kind = "update"       -> ExecUpdate(db, s)
    [] s.kind = "delete_all"   -> ExecDeleteAll(db, s)
    [] s.kind = "delete_event" -> ExecDeleteEvent(db, s, fk)
    [] s.kind = "update_event" -> ExecUpdateEvent(db, s)

\* Run statements i..Len(stmts); statement number failAt raises a storage
\* failure (failAt = 0: none).  The store returned on an error is the store
\* as the failing statement found it.
RECURSIVE Run(_, _, _, _, _)
Run(db, stmts, i, failAt, fk) ==
  IF i > Len(stmts) THEN [ db |-> db, err |-> FALSE ]
  ELSE IF i = failAt THEN [ db |-> db, err |-> TRUE ]
  ELSE LET r == Exec(db, stmts[i], fk)
       IN  IF r.err THEN [ db |-> db, err |-> TRUE ]
           ELSE Run(r.db, stmts, i + 1, failAt, fk)

\* statements run one by one in autocommit mode: what ran before a failure stays
Autocommit(db, stmts, failAt) == Run(db, stmts, 1, failAt, TRUE)

\* the statements run without BEGIN / ROLLBACK around them
Transaction_NoRollback(db, stmts, failAt, fk) == Run(db, stmts, 1, failAt, fk)

\* db.transaction(fn)(): BEGIN; fn; COMMIT, or ROLLBACK when fn throws
Transaction(db, stmts, failAt, fk) ==
  LET r == Run(db, stmts, 1, failAt, fk)
  IN  IF r.err THEN [ db |-> db, err |-> TRUE ] ELSE r

(***************************************************************************)
(* JavaScript values in request bodies, named by strings                   *)
(***************************************************************************)
\* !v  for the values used in requests: undefined/null (NULL), '', false, 0
JsFalsy(v) == v \in { NULL, "", "false", "0" }

\* uuidv4(): the n-th identifier drawn in a run
Uuid(n) == "u" \o ToString(n)

(***************************************************************************)
(* audit.js: PII_FIELDS, sanitizeDetails, logAudit                         *)
(*                                                                         *)
(* A details object is the set of its leaves [path, value]; path is the    *)
(* sequence of keys from the root.                                         *)
(***************************************************************************)
PII_FIELDS == { "email", "phone", "birthday", "anniversary", "other_date" }

\* first position of path that sanitizeDetails replaces, 0 if none: a PII
\* key reached through 'changes' keys only
RedactAt(path) ==
  LET hits == { i \in 1..Len(path) :
                  /\ path[i] \in PII_FIELDS
                  /\ \A j \in 1..(i - 1) : path[j] = "changes" }
  IN  IF hits = { } THEN 0 ELSE CHOOSE i \in hits : \A k \in hits : i <= k

sanitizeDetails(details) ==
  { IF RedactAt(e.path) = 0 THEN e
    ELSE [ path |-> SubSeq(e.path, 1, RedactAt(e.path)), value |-> "[redacted]" ]
    : e \in details }

Detail(key, value) == [ path |-> << key >>, value |-> value ]

\* the INSERT INTO audit_log that logAudit runs, with the uuid it draws
logAudit(id, action, entityType, entityId, details) ==
  [ kind |-> "insert", table |-> "audit_log", orIgnore |-> FALSE,
    row  |-> [ id |-> id, action |-> action, entity_type |-> entityType,
               entity_id |-> entityId, details |-> sanitizeDetails(details) ] ]

InsertInto(t, row) == [ kind |-> "insert", table |-> t, orIgnore |-> FALSE, row |-> row ]

UpdateWhere(t, id, col, val) ==
  [ kind |-> "update", table |-> t, id |-> id, col |-> col, val |-> val ]

(***************************************************************************)
(* middleware.js                                                           *)
(***************************************************************************)
requireAdmin(role) == role = "admin"

(***************************************************************************)
(* orders.js: POST /api/orders (createPurchase)                            *)
(***************************************************************************)
\* the check comparing the stored text with a boolean-like 1
EmergencyStopActive_WrongLiteral(db) ==
  \E s \in db["global_settings"] : s.key = "emergency_stop" /\ s.value = "1"

\* SELECT value FROM global_settings WHERE key = 'emergency_stop', then
\* emergencySetting && emergencySetting.value === 'true'
EmergencyStopActive(db) ==
  \E s \in db["global_settings"] : s.key = "emergency_stop" /\ s.value = "true"

\* the lookup without its status condition
ApprovedApproval_AnyStatus(db, approval_id) ==
  \E a \in db["approvals"] : a.id = approval_id

\* SELECT * FROM approvals WHERE id = ? AND status = 'approved'
ApprovedApproval(db, approval_id) ==
  \E a \in db["approvals"] : a.id = approval_id /\ a.status = "approved"

\* the checks of the handler, in order; "pass" when all are met
CreateOrderGate(db, req) ==
  IF ~requireAdmin(req.role) THEN "admin_required"
  ELSE IF EmergencyStopActive(db) THEN "emergency_stop"
  ELSE IF JsFalsy(req.gift_recommendation_id) \/ JsFalsy(req.event_id)
          \/ JsFalsy(req.approval_id) THEN "fields_required"
  ELSE IF ~ApprovedApproval(db, req.approval_id) THEN "approval_required"
  ELSE IF req.gift_recommendation_id \notin Ids(db, "gift_recommendations")
       THEN "gift_not_found"
  ELSE "pass"

GateCode(reason) ==
  CASE reason = "admin_required"    -> 403
    [] reason = "emergency_stop"    -> 403
    [] reason = "fields_required"   -> 400
    [] reason = "approval_required" -> 400
    [] reason = "gift_not_found"    -> 404
    [] OTHER                        -> 0

\* the recommendation marked 'approved' instead of 'purchased'
CreateOrderStmts_GiftApproved(req, u) ==
  << InsertInto("orders",
       [ id |-> Uuid(u + 1), gift_recommendation_id |-> req.gift_recommendation_id,
         event_id |-> req.event_id, approval_id |-> req.approval_id,
         status |-> "ordered" ]),
     UpdateWhere("gift_recommendations", req.gift_recommendation_id, "status", "approved"),
     logAudit(Uuid(u + 2), "create_order", "order", Uuid(u + 1),
              { Detail("gift", req.gift_recommendation_id) }),
     InsertInto("notifications",
       [ id |-> Uuid(u + 3), event_id |-> req.event_id, order_id |-> Uuid(u + 1),
         type |-> "delivery_confirmed", read |-> "0" ]) >>

\* the four writes of the handler; u is the number of uuids drawn so far
CreateOrderStmts(req, u) ==
  << InsertInto("orders",
       [ id |-> Uuid(u + 1), gift_recommendation_id |-> req.gift_recommendation_id,
         event_id |-> req.event_id, approval_id |-> req.approval_id,
         status |-> "ordered" ]),
     UpdateWhere("gift_recommendations", req.gift_recommendation_id, "status", "purchased"),
     logAudit(Uuid(u + 2), "create_order", "order", Uuid(u + 1),
              { Detail("gift", req.gift_recommendation_id) }),
     InsertInto("notifications",
       [ id |-> Uuid(u + 3), event_id |-> req.event_id, order_id |-> Uuid(u + 1),
         type |-> "delivery_confirmed", read |-> "0" ]) >>

CreateOrderHandler(db, req, u, failAt) ==
  LET gate == CreateOrderGate(db, req)
      r    == Autocommit(db, CreateOrderStmts(req, u), failAt)
  IN  IF gate # "pass"
      THEN [ db |-> db, code |-> GateCode(gate), reason |-> gate, n |-> 0, uuids |-> 0 ]
      ELSE [ db |-> r.db, code |-> IF r.err THEN 500 ELSE 201,
             reason |-> IF r.err THEN "exception" ELSE "created", n |-> 0, uuids |-> 3 ]

(***************************************************************************)
(* settings.js: POST /api/settings/emergency-stop                          *)
(***************************************************************************)
\* the SELECT with status = 'pending' only
PendingOrders_PendingOnly(db) == { o \in db["orders"] : o.status = "pending" }

\* SELECT * FROM orders WHERE status IN ('pending', 'ordered')
PendingOrders(db) == { o \in db["orders"] : o.status \in { "pending", "ordered" } }

\* the orders in which a SELECT without ORDER BY may return a set of rows
RowOrders(S) ==
  { f \in [ 1..Cardinality(S) -> S ] : \A i, j \in 1..Cardinality(S) : f[i] = f[j] => i = j }

\* the handler without its notification INSERT
EmergencyStopStmts_NoNotification(activate, pending, u) ==
  LET value == IF JsFalsy(activate) THEN "false" ELSE "true"
      head  == << UpdateWhere("global_settings", "emergency_stop", "value", value),
                  logAudit(Uuid(u + 1), "emergency_stop", "global_settings", "emergency_stop",
                           { Detail("activated", activate) }) >>
      loop  == [ j \in 1..(2 * Len(pending)) |->
                   IF j % 2 = 1
                   THEN UpdateWhere("orders", pending[(j + 1) \div 2].id, "status", "cancelled")
                   ELSE logAudit(Uuid(u + 1 + (j \div 2)), "cancel_order", "order",
                                 pending[j \div 2].id,
                                 { Detail("reason", "Emergency stop activated") }) ]
  IN  IF JsFalsy(activate) THEN head ELSE head \o loop

\* pending is the result of the SELECT, in the order the loop visits it
EmergencyStopStmts(activate, pending, u) ==
  LET value == IF JsFalsy(activate) THEN "false" ELSE "true"
      head  == << UpdateWhere("global_settings", "emergency_stop", "value", value),
                  logAudit(Uuid(u + 1), "emergency_stop", "global_settings", "emergency_stop",
                           { Detail("activated", activate) }) >>
      loop  == [ j \in 1..(2 * Len(pending)) |->
                   IF j % 2 = 1
                   THEN UpdateWhere("orders", pending[(j + 1) \div 2].id, "status", "cancelled")
                   ELSE logAudit(Uuid(u + 1 + (j \div 2)), "cancel_order", "order",
                                 pending[j \div 2].id,
                                 { Detail("reason", "Emergency stop activated") }) ]
      notif == << InsertInto("notifications",
                    [ id |-> Uuid(u + 2 + Len(pending)), event_id |-> NULL,
                      order_id |-> NULL, type |-> "emergency_stop", read |-> "0" ]) >>
  IN  IF JsFalsy(activate) THEN head \o notif ELSE head \o loop \o notif

EmergencyStopHandler(db, req, pending, u, failAt) ==
  LET act   == ~JsFalsy(req.activate)
      sel   == IF act THEN pending ELSE << >>
      r     == Autocommit(db, EmergencyStopStmts(req.activate, sel, u), failAt)
  IN  IF ~requireAdmin(req.role)
      THEN [ db |-> db, code |-> 403, reason |-> "admin_required", n |-> 0, uuids |-> 0 ]
      ELSE [ db |-> r.db, code |-> IF r.err THEN 500 ELSE 200,
             reason |-> IF r.err THEN "exception"
                        ELSE IF act THEN "activated" ELSE "deactivated",
             n |-> Len(sel), uuids |-> 2 + Len(sel) ]

(***************************************************************************)
(* settings.js: PUT /api/settings/:key                                     *)
(***************************************************************************)
\* INSERT INTO global_settings ... ON CONFLICT(key) DO UPDATE SET value = ?
Upsert(key, value) == [ kind |-> "upsert", key |-> key, value |-> value ]

PutSettingStmts(req, u) ==
  << Upsert(req.key, req.value),
     logAudit(Uuid(u + 1), "update_setting", "global_settings", req.key,
              { Detail("value", req.value) }) >>

PutSettingHandler(db, req, u, failAt) ==
  LET r == Autocommit(db, PutSettingStmts(req, u), failAt)
  IN  IF ~requireAdmin(req.role)
      THEN [ db |-> db, code |-> 403, reason |-> "admin_required", n |-> 0, uuids |-> 0 ]
      ELSE IF req.key \notin ALLOWED_SETTINGS_KEYS
      THEN [ db |-> db, code |-> 400, reason |-> "unknown_key", n |-> 0, uuids |-> 0 ]
      ELSE IF req.value = NULL
      THEN [ db |-> db, code |-> 400, reason |-> "value_required", n |-> 0, uuids |-> 0 ]
      ELSE [ db |-> r.db, code |-> IF r.err THEN 500 ELSE 200,
             reason |-> IF r.err THEN "exception" ELSE "updated", n |-> 0, uuids |-> 1 ]

(***************************************************************************)
(* orders.js: PUT /api/orders/:id/status                                   *)
(***************************************************************************)
OrderStatuses == { "pending", "ordered", "shipped", "delivered", "issue", "cancelled" }

UpdateStatusStmts(existing, req, u) ==
  << UpdateWhere("orders", req.id, "status", req.status),
     logAudit(Uuid(u + 1), "update_status", "order", req.id,
              { Detail("old_status", existing.status), Detail("new_status", req.status) }) >>
  \o ( IF req.status = "issue"
       THEN << InsertInto("notifications",
                 [ id |-> Uuid(u + 2), event_id |-> existing.event_id, order_id |-> req.id,
                   type |-> "delivery_issue", read |-> "0" ]) >>
       ELSE << >> )
  \o ( IF req.status = "delivered"
       THEN << UpdateWhere("events", existing.event_id, "status", "completed"),
               InsertInto("notifications",
                 [ id |-> Uuid(u + 2), event_id |-> existing.event_id, order_id |-> req.id,
                   type |-> "delivery_confirmed", read |-> "0" ]) >>
       ELSE << >> )

UpdateStatusHandler(db, req, u, failAt) ==
  IF req.status \notin OrderStatuses
  THEN [ db |-> db, code |-> 400, reason |-> "invalid_status", n |-> 0, uuids |-> 0 ]
  ELSE IF req.id \notin Ids(db, "orders")
  THEN [ db |-> db, code |-> 404, reason |-> "order_not_found", n |-> 0, uuids |-> 0 ]
  ELSE LET existing == CHOOSE o \in db["orders"] : o.id = req.id
           r        == Autocommit(db, UpdateStatusStmts(existing, req, u), failAt)
       IN  [ db |-> r.db, code |-> IF r.err THEN 500 ELSE 200,
             reason |-> IF r.err THEN "exception" ELSE "updated", n |-> 0, uuids |-> 2 ]

(***************************************************************************)
(* approvals.js: POST /api/approvals                                       *)
(* (no card message is attached and the gift price is within budget)       *)
(***************************************************************************)
ApprovalStmts(req, u) ==
  << InsertInto("approvals",
       [ id |-> Uuid(u + 1), event_id |-> req.event_id,
         gift_recommendation_id |-> req.gift_recommendation_id, status |-> req.status ]) >>
  \o ( IF req.gift_recommendation_id # NULL
       THEN << UpdateWhere("gift_recommendations", req.gift_recommendation_id, "status",
                           req.status) >>
       ELSE << >> )
  \o << logAudit(Uuid(u + 2), IF req.status = "approved" THEN "approve" ELSE "reject",
                 "approval", Uuid(u + 1),
                 { Detail("event_id", req.event_id),
                   Detail("gift_recommendation_id", req.gift_recommendation_id) }),
        InsertInto("notifications",
          [ id |-> Uuid(u + 3), event_id |-> req.event_id, order_id |-> NULL,
            type |-> "approval_needed", read |-> "0" ]) >>

ApprovalHandler(db, req, u, failAt) ==
  LET r == Autocommit(db, ApprovalStmts(req, u), failAt)
  IN  IF EmergencyStopActive(db)
      THEN [ db |-> db, code |-> 403, reason |-> "emergency_stop", n |-> 0, uuids |-> 0 ]
      ELSE IF JsFalsy(req.event_id) \/ JsFalsy(req.status)
      THEN [ db |-> db, code |-> 400, reason |-> "fields_required", n |-> 0, uuids |-> 0 ]
      ELSE IF req.status \notin { "approved", "rejected" }
      THEN [ db |-> db, code |-> 400, reason |-> "invalid_status", n |-> 0, uuids |-> 0 ]
      ELSE IF req.event_id \notin Ids(db, "events")
      THEN [ db |-> db, code |-> 404, reason |-> "event_not_found", n |-> 0, uuids |-> 0 ]
      ELSE IF /\ ~JsFalsy(req.gift_recommendation_id)
              /\ req.gift_recommendation_id \notin Ids(db, "gift_recommendations")
      THEN [ db |-> db, code |-> 404, reason |-> "gift_not_found", n |-> 0, uuids |-> 0 ]
      ELSE [ db |-> r.db, code |-> IF r.err THEN 500 ELSE 201,
             reason |-> IF r.err THEN "exception" ELSE "created", n |-> 0, uuids |-> 3 ]

(***************************************************************************)
(* events.js: DELETE /api/events/:id  (caller owns the event)              *)
(***************************************************************************)
DeleteEventStmts(req, u) ==
  << [ kind |-> "delete_event", id |-> req.id ],
     logAudit(Uuid(u + 1), "delete", "event", req.id, { Detail("name", req.id) }) >>

DeleteEventHandler(db, req, u, failAt) ==
  LET r == Autocommit(db, DeleteEventStmts(req, u), failAt)
  IN  IF req.id \notin Ids(db, "events")
      THEN [ db |-> db, code |-> 404, reason |-> "event_not_found", n |-> 0, uuids |-> 0 ]
      ELSE [ db |-> r.db, code |-> IF r.err THEN 500 ELSE 200,
             reason |-> IF r.err THEN "exception" ELSE "deleted", n |-> 0, uuids |-> 1 ]

(***************************************************************************)
(* events.js: PUT /api/events/:id  (caller owns the event)                 *)
(*                                                                         *)
(* req.body is the set of its leaves [path, value], as a details object.   *)
(***************************************************************************)
\* req.body[key], undefined (NULL) when the body has no such key
BodyField(body, key) ==
  IF \E l \in body : l.path = << key >>
  THEN (CHOOSE l \in body : l.path = << key >>).value
  ELSE NULL

\* the UPDATE and logAudit('update', 'event', id, { changes: req.body })
UpdateEventStmts(req, u) ==
  << [ kind |-> "update_event", id |-> req.id,
       lead   |-> IF JsFalsy(BodyField(req.body, "lead_time_days")) THEN NULL
                  ELSE BodyField(req.body, "lead_time_days"),
       status |-> IF JsFalsy(BodyField(req.body, "status")) THEN NULL
                  ELSE BodyField(req.body, "status") ],
     logAudit(Uuid(u + 1), "update", "event", req.id,
              { [ path |-> << "changes" >> \o l.path, value |-> l.value ] : l \in req.body }) >>

UpdateEventHandler(db, req, u, failAt) ==
  LET r == Autocommit(db, UpdateEventStmts(req, u), failAt)
  IN  IF req.id \notin Ids(db, "events")
      THEN [ db |-> db, code |-> 404, reason |-> "event_not_found", n |-> 0, uuids |-> 0 ]
      ELSE [ db |-> r.db, code |-> IF r.err THEN 500 ELSE 200,
             reason |-> IF r.err THEN "exception" ELSE "updated", n |-> 0, uuids |-> 1 ]

(***************************************************************************)
(* notifications.js: PUT /api/notifications/:id/read                       *)
(***************************************************************************)
\* UPDATE notifications SET read = 1 WHERE id = ?   and nothing else
MarkReadStmts(req) == << UpdateWhere("notifications", req.id, "read", "1") >>

MarkReadHandler(db, req, failAt) ==
  LET r == Autocommit(db, MarkReadStmts(req), failAt)
  IN  [ db |-> r.db, code |-> IF r.err THEN 500 ELSE 200,
        reason |-> IF r.err THEN "exception" ELSE "marked", n |-> 0, uuids |-> 0 ]

(***************************************************************************)
(* backup.js: GET /api/backup/export                                       *)
(***************************************************************************)
\* .all(): the rows of a table as a list
RECURSIVE RowList(_)
RowList(S) ==
  IF S = { } THEN << >>
  ELSE LET r == CHOOSE x \in S : TRUE IN << r >> \o RowList(S \ { r })

\* the export without the rows of the ledger
ExportTables_NoLedger(db) ==
  [ t \in Tables |-> IF t = "audit_log" THEN << >> ELSE RowList(db[t]) ]

\* data.tables of the export: SELECT * FROM each table of EXPORT_TABLES
ExportTables(db) == [ t \in Tables |-> RowList(db[t]) ]

RECURSIVE TotalRows(_, _)
TotalRows(tables, i) ==
  IF i > Len(EXPORT_TABLES) THEN 0
  ELSE Len(tables[EXPORT_TABLES[i]]) + TotalRows(tables, i + 1)

ExportHandler(db, req, u, failAt) ==
  LET data == [ version |-> "1", tables |-> ExportTables(db) ]
      r    == Autocommit(db,
                << logAudit(Uuid(u + 1), "export_backup", "system", NULL,
                            { Detail("format", "json"),
                              Detail("tables", ToString(Len(EXPORT_TABLES))),
                              Detail("total_rows", ToString(TotalRows(data.tables, 1))) }) >>,
                failAt)
  IN  IF ~requireAdmin(req.role)
      THEN [ db |-> db, code |-> 403, reason |-> "admin_required", n |-> 0, uuids |-> 0 ]
      ELSE IF req.confirm # "backup"
      THEN [ db |-> db, code |-> 400, reason |-> "confirmation_required", n |-> 0,
             uuids |-> 0 ]
      ELSE [ db |-> r.db, code |-> IF r.err THEN 500 ELSE 200,
             reason |-> IF r.err THEN "exception" ELSE "exported",
             n |-> TotalRows(data.tables, 1), uuids |-> 1, tables |-> data.tables,
             version |-> data.version ]

(***************************************************************************)
(* backup.js: POST /api/backup/restore                                     *)
(***************************************************************************)
\* COLUMN_TYPES: the columns that must hold a number
COLUMN_TYPES ==
  { "default_amount", "amount", "price", "max_budget", "recurring", "lead_time_days",
    "in_stock", "selected", "read", "enabled" }

\* the request values v with  typeof v === 'number'
JsNumbers == { "0", "1", "2", "7", "14" }

\* row[col], undefined (NULL) when the row has no such key
Cell(row, col) == IF col \in DOMAIN row THEN row[col] ELSE NULL

validateRowValue(col, value) ==
  \/ col \notin COLUMN_TYPES
  \/ value = NULL
  \/ value \in JsNumbers

RowTypeError(columns, row) == \E c \in columns : ~validateRowValue(c, Cell(row, c))

\* data.tables[table], undefined when the key is missing
SnapshotRows(data, t) == IF t \in DOMAIN data.tables THEN data.tables[t] ELSE << >>

\* Object.keys(rows[0]) filtered by the allowlist
RestoreColumns(data, t) == DOMAIN SnapshotRows(data, t)[1] \cap ALLOWED_COLUMNS[t]

\* a table of the snapshot takes part in the insert phase
RestoresTable(data, t) ==
  /\ Len(SnapshotRows(data, t)) > 0
  /\ RestoreColumns(data, t) # { }

\* the row an INSERT (columns) VALUES (...) stores for a snapshot row
RestoreRow(t, columns, row) ==
  [ c \in ALLOWED_COLUMNS[t] |->
      IF c \in columns THEN Cell(row, c) ELSE ColumnDefault[t][c] ]

\* the rows of a table that pass type validation
ValidRows(data, t) ==
  SelectSeq(SnapshotRows(data, t), LAMBDA r : ~RowTypeError(RestoreColumns(data, t), r))

TableInsertStmts(data, t) ==
  IF ~RestoresTable(data, t) THEN << >>
  ELSE LET columns == RestoreColumns(data, t)
           rows    == ValidRows(data, t)
       IN  [ i \in 1..Len(rows) |->
               [ kind |-> "insert", table |-> t,
                 orIgnore |-> (t \in RESTORE_PROTECTED_TABLES),
                 row |-> RestoreRow(t, columns, rows[i]) ] ]

\* clearOrder: the restorable tables in reverse dependency order
RECURSIVE DeleteStmts(_)
DeleteStmts(i) ==
  IF i < 1 THEN << >>
  ELSE ( IF EXPORT_TABLES[i] \in RESTORE_PROTECTED_TABLES THEN << >>
         ELSE << [ kind |-> "delete_all", table |-> EXPORT_TABLES[i] ] >> )
       \o DeleteStmts(i - 1)

RECURSIVE InsertStmts(_, _)
InsertStmts(data, i) ==
  IF i > Len(EXPORT_TABLES) THEN << >>
  ELSE TableInsertStmts(data, EXPORT_TABLES[i]) \o InsertStmts(data, i + 1)

RestoreStmts(data) == DeleteStmts(Len(EXPORT_TABLES)) \o InsertStmts(data, 1)

RECURSIVE TypeErrorCount(_, _)
TypeErrorCount(data, i) ==
  IF i > Len(EXPORT_TABLES) THEN 0
  ELSE ( IF RestoresTable(data, EXPORT_TABLES[i])
         THEN Len(SnapshotRows(data, EXPORT_TABLES[i])) - Len(ValidRows(data, EXPORT_TABLES[i]))
         ELSE 0 )
       + TypeErrorCount(data, i + 1)

\* PRAGMA foreign_keys is a no-op while a transaction is open (SQLite
\* documentation); restoreTransaction issues it after BEGIN
PragmaTakesEffect(inTransaction) == ~inTransaction

\* db.pragma('foreign_keys = <value>'): the setting of the connection after it
PragmaForeignKeys(current, value, inTransaction) ==
  IF PragmaTakesEffect(inTransaction) THEN value ELSE current

\* restoreTransaction(): one transaction around the delete and insert phases;
\* foreign_keys = OFF is issued first and foreign_keys = ON in the finally
\* block, both before the transaction function returns.  fk is the setting
\* of the connection; the result carries the setting the call leaves behind.
restoreTransaction(db, stmts, failAt, fk) ==
  LET off == PragmaForeignKeys(fk, FALSE, TRUE)
      tx  == Transaction(db, stmts, failAt, off)
  IN  [ db |-> tx.db, err |-> tx.err, fk |-> PragmaForeignKeys(off, TRUE, TRUE) ]

\* the password whose bcrypt hash is stored for the caller
CurrentPassword == "secret"

\* the checks without the bcrypt comparison
RestoreValidation_NoCompare(req) ==
  IF ~requireAdmin(req.role) THEN "admin_required"
  ELSE IF req.confirm # "backup" THEN "confirmation_required"
  ELSE IF ~req.hasTables \/ JsFalsy(req.version) THEN "invalid_backup"
  ELSE IF req.version # "1" THEN "unsupported_version"
  ELSE IF JsFalsy(req.password) THEN "password_required"
  ELSE "pass"

\* the checks that run before the transaction, in order; "pass" when all are met
RestoreValidation(req) ==
  IF ~requireAdmin(req.role) THEN "admin_required"
  ELSE IF req.confirm # "backup" THEN "confirmation_required"
  ELSE IF ~req.hasTables \/ JsFalsy(req.version) THEN "invalid_backup"
  ELSE IF req.version # "1" THEN "unsupported_version"
  ELSE IF JsFalsy(req.password) THEN "password_required"
  ELSE IF req.password # CurrentPassword THEN "incorrect_password"
  ELSE "pass"

RestoreCode(reason) ==
  CASE reason = "admin_required"    -> 403
    [] reason = "incorrect_password" -> 401
    [] OTHER                        -> 400

\* the handler writes no ledger entry
RestoreLogStmts_None(data, total, u) == << >>

\* logAudit('restore_backup', 'system', null, {...}) after restoreTransaction()
RestoreLogStmts(data, total, u) ==
  << logAudit(Uuid(u + 1), "restore_backup", "system", NULL,
              { Detail("total_rows", ToString(total)),
                Detail("type_errors", ToString(TypeErrorCount(data, 1))) }) >>

\* failAt: the statement of the transaction that fails; logFails: the
\* logAudit after the commit fails
RestoreHandler(db, req, u, failAt, logFails, fk) ==
  LET check == RestoreValidation(req)
      stmts == RestoreStmts(req.data)
      tx    == restoreTransaction(db, stmts, failAt, fk)
      total == Len(stmts) - Len(DeleteStmts(Len(EXPORT_TABLES)))
      log   == Autocommit(tx.db, RestoreLogStmts(req.data, total, u),
                          IF logFails THEN 1 ELSE 0)
  IN  IF check # "pass"
      THEN [ db |-> db, code |-> RestoreCode(check), reason |-> check, n |-> 0, uuids |-> 0 ]
      ELSE IF tx.err
      THEN [ db |-> tx.db, code |-> 500, reason |-> "restore_failed", n |-> 0, uuids |-> 0,
             fk |-> tx.fk ]
      ELSE [ db |-> log.db, code |-> IF log.err THEN 500 ELSE 200,
             reason |-> IF log.err THEN "exception" ELSE "restored",
             n |-> total, uuids |-> 1, fk |-> tx.fk,
             typeErrors |-> TypeErrorCount(req.data, 1) ]

(***************************************************************************)
(* database.js: getDb                                                      *)
(***************************************************************************)
\* the connection opened without the pragma: SQLite's default is OFF
getDb_NoPragma == [ foreign_keys |-> FALSE ]

\* db.pragma('foreign_keys = ON') on the connection every handler shares
getDb == [ foreign_keys |-> TRUE ]

(***************************************************************************)
(* State                                                                   *)
(***************************************************************************)
VARIABLES
  db,            \* the SQLite store: table name -> set of rows
  foreign_keys,  \* PRAGMA foreign_keys of the connection (getDb sets it ON)
  uuid,          \* number of uuids drawn so far
  ops,           \* number of requests that changed the store
  last,          \* the last request and its response
  tasks          \* the requests in progress on the event loop (SpecConc)

vars == << db, foreign_keys, uuid, ops, last, tasks >>

(***************************************************************************)
(* Data sets the runs start from.  Fresh is the store after                *)
(* initializeSchema and the creation of two events with one gift           *)
(* recommendation each; the other two are reached from it by the requests  *)
(* written out below.                                                      *)
(***************************************************************************)
Fresh ==
  [ events               |-> { [ id |-> "e1", lead_time_days |-> "14", status |-> "upcoming" ],
                               [ id |-> "e2", lead_time_days |-> "14", status |-> "upcoming" ],
                               [ id |-> "e3", lead_time_days |-> "14", status |-> "upcoming" ] },
    gift_recommendations |-> { [ id |-> "g1", event_id |-> "e1", status |-> "recommended" ],
                               [ id |-> "g2", event_id |-> "e2", status |-> "recommended" ] },
    approvals            |-> { },
    orders               |-> { },
    notifications        |-> { },
    global_settings      |-> { [ key |-> "emergency_stop", value |-> "false" ],
                               [ key |-> "default_lead_time_days", value |-> "14" ] },
    audit_log            |-> { logAudit("s1", "create", "event", "e1",
                                        { Detail("name", "e1") }).row,
                               logAudit("s2", "create", "event", "e2",
                                        { Detail("name", "e2") }).row,
                               logAudit("s3", "create", "event", "e3",
                                        { Detail("name", "e3") }).row } ]

ApproveE1 ==
  ApprovalHandler(Fresh, [ event_id |-> "e1", gift_recommendation_id |-> "g1",
                           status |-> "approved" ], 0, 0)
OrderE1 ==
  CreateOrderHandler(ApproveE1.db,
                     [ role |-> "admin", gift_recommendation_id |-> "g1",
                       event_id |-> "e1", approval_id |-> Uuid(1) ], 3, 0)
RejectE2 ==
  ApprovalHandler(OrderE1.db, [ event_id |-> "e2", gift_recommendation_id |-> "g2",
                                status |-> "rejected" ], 6, 0)
ApproveE2 ==
  ApprovalHandler(RejectE2.db, [ event_id |-> "e2", gift_recommendation_id |-> "g2",
                                 status |-> "approved" ], 9, 0)
OrderE2 ==
  CreateOrderHandler(ApproveE2.db,
                     [ role |-> "admin", gift_recommendation_id |-> "g2",
                       event_id |-> "e2", approval_id |-> Uuid(10) ], 12, 0)
DeliverE2 ==
  UpdateStatusHandler(OrderE2.db, [ id |-> Uuid(13), status |-> "delivered" ], 15, 0)
\* PUT /api/events/e3 { lead_time_days: 'soon' }
LeadTimeE3 ==
  UpdateEventHandler(DeliverE2.db,
                     [ id |-> "e3",
                       body |-> { [ path |-> << "lead_time_days" >>, value |-> "soon" ] } ],
                     17, 0)

\* a start state: the store and the number of uuids drawn to reach it
StartStates ==
  { [ db |-> Fresh, uuid |-> 0 ],
    [ db |-> LeadTimeE3.db, uuid |-> 18 ] }

\* a response body without exported tables
NoTables == [ t \in { } |-> << >> ]

\* number of requests the event loop is given in a run of SpecConc
MaxTasks == 2

\* a request that has not arrived yet
NewTask ==
  [ phase |-> "new", op |-> "none", req |-> [ role |-> "none" ], stmts |-> << >>,
    pc |-> 0, made |-> { } ]

Init ==
  /\ \E s \in StartStates : db = s.db /\ uuid = s.uuid
  /\ tasks = [ i \in 1..MaxTasks |-> NewTask ]
  /\ foreign_keys = getDb.foreign_keys
  /\ ops = 0
  /\ last = [ op |-> "none", code |-> 0, reason |-> "none", n |-> 0, changed |-> FALSE,
              req |-> [ role |-> "none" ], tables |-> NoTables, typeErrors |-> 0,
              version |-> NULL ]

(***************************************************************************)
(* Requests                                                                *)
(*                                                                         *)
(* Requests are issued until MaxOps of them have changed the store; a run  *)
(* ends at its first request that is rejected or fails: such a request     *)
(* leaves a store from which the same requests are possible as before it,  *)
(* or a partly written one.                                                *)
(***************************************************************************)
Respond(op, req, h) ==
  /\ last.op = "none" \/ (last.changed /\ last.code # 500)
  /\ ops < MaxOps
  /\ db' = h.db
  /\ uuid' = IF h.db = db THEN uuid ELSE uuid + h.uuids
  /\ ops' = IF h.db = db THEN ops ELSE ops + 1
  /\ last' = [ op |-> op, code |-> h.code, reason |-> h.reason, n |-> h.n,
               changed |-> (h.db # db), req |-> req,
               tables |-> IF "tables" \in DOMAIN h THEN h.tables ELSE NoTables,
               typeErrors |-> IF "typeErrors" \in DOMAIN h THEN h.typeErrors ELSE 0,
               version |-> IF "version" \in DOMAIN h THEN h.version ELSE NULL ]
  /\ foreign_keys' = IF "fk" \in DOMAIN h THEN h.fk ELSE foreign_keys
  /\ UNCHANGED tasks

CreateOrderRequests ==
  { [ role |-> "admin", gift_recommendation_id |-> p[1], event_id |-> p[2],
      approval_id |-> a ] :
      p \in { << "g1", "e1" >>, << "g2", "e2" >> },
      a \in Ids(db, "approvals") }
  \cup { [ role |-> "admin", gift_recommendation_id |-> "g1", event_id |-> "e1",
           approval_id |-> a ] : a \in { NULL, "", "missing" } }
  \cup { [ role |-> "user", gift_recommendation_id |-> "g1", event_id |-> "e1",
           approval_id |-> NULL ],
         [ role |-> "admin", gift_recommendation_id |-> NULL, event_id |-> "e1",
           approval_id |-> NULL ] }

CreateOrder ==
  \E req \in CreateOrderRequests, failAt \in 0..4 :
    Respond("create_order", req, CreateOrderHandler(db, req, uuid, failAt))

EmergencyStopRequests ==
  { [ role |-> "admin", activate |-> a ] : a \in { "true", "false", NULL } }
  \cup { [ role |-> "user", activate |-> "true" ] }

EmergencyStop ==
  \E req \in EmergencyStopRequests, pending \in RowOrders(PendingOrders(db)) :
    \E failAt \in 0..(3 + 2 * Len(pending)) :
      Respond("emergency_stop", req, EmergencyStopHandler(db, req, pending, uuid, failAt))

PutSettingRequests ==
  { [ role |-> "admin", key |-> "emergency_stop", value |-> "true" ],
    [ role |-> "admin", key |-> "emergency_stop", value |-> "false" ],
    [ role |-> "admin", key |-> "default_lead_time_days", value |-> "7" ],
    [ role |-> "admin", key |-> "default_lead_time_days", value |-> NULL ],
    [ role |-> "admin", key |-> "bogus", value |-> "true" ],
    [ role |-> "user", key |-> "emergency_stop", value |-> "true" ] }

PutSetting ==
  \E req \in PutSettingRequests, failAt \in 0..2 :
    Respond("put_setting", req, PutSettingHandler(db, req, uuid, failAt))

UpdateStatusRequests ==
  { [ id |-> i, status |-> s ] : i \in Ids(db, "orders"), s \in { "pending", "delivered" } }
  \cup { [ id |-> "missing", status |-> "shipped" ], [ id |-> "missing", status |-> "bogus" ] }

UpdateStatus ==
  \E req \in UpdateStatusRequests, failAt \in 0..4 :
    Respond("update_status", req, UpdateStatusHandler(db, req, uuid, failAt))

ApprovalRequests ==
  { [ event_id |-> "e1", gift_recommendation_id |-> "g1", status |-> "approved" ],
    [ event_id |-> "e2", gift_recommendation_id |-> "g2", status |-> "approved" ],
    [ event_id |-> "e2", gift_recommendation_id |-> "g2", status |-> "rejected" ],
    [ event_id |-> "e1", gift_recommendation_id |-> "g1", status |-> "pending" ],
    [ event_id |-> NULL, gift_recommendation_id |-> "g1", status |-> "approved" ] }

Approve ==
  \E req \in ApprovalRequests :
    Respond("approve", req, ApprovalHandler(db, req, uuid, 0))

DeleteEvent ==
  \E req \in { [ id |-> "e1" ], [ id |-> "e2" ] }, failAt \in 0..2 :
    Respond("delete_event", [ id |-> req.id, fault |-> failAt ],
            DeleteEventHandler(db, req, uuid, failAt))

Export ==
  \E req \in { [ role |-> "admin", confirm |-> "backup" ],
               [ role |-> "admin", confirm |-> NULL ],
               [ role |-> "user", confirm |-> "backup" ] } :
    Respond("export", req, ExportHandler(db, req, uuid, 0))

UpdateEventRequests ==
  { [ id |-> "e3", body |-> { [ path |-> << "lead_time_days" >>, value |-> "soon" ] } ],
    [ id |-> "e1", body |-> { [ path |-> << "status" >>, value |-> "in_progress" ],
                              [ path |-> << "email" >>, value |-> "a@b" ] } ],
    [ id |-> "e1", body |-> { [ path |-> << "meta", "email" >>, value |-> "a@b" ] } ],
    [ id |-> "missing", body |-> { } ] }

UpdateEvent ==
  \E req \in UpdateEventRequests, failAt \in 0..2 :
    Respond("update_event", req, UpdateEventHandler(db, req, uuid, failAt))

MarkRead ==
  \E req \in { [ id |-> Uuid(3) ], [ id |-> "missing" ] }, failAt \in 0..1 :
    Respond("mark_read", req, MarkReadHandler(db, req, failAt))

(***************************************************************************)
(* Snapshot documents offered to restore                                   *)
(***************************************************************************)
\* every table present and empty
SnapEmpty == [ t \in Tables |-> << >> ]

\* an order without approval, in flight, with the switch stopped
SnapNoApproval ==
  [ events               |-> << [ id |-> "e1", status |-> "upcoming" ] >>,
    gift_recommendations |-> << [ id |-> "g1", event_id |-> "e1", status |-> "approved" ] >>,
    orders               |-> << [ id |-> "o9", gift_recommendation_id |-> "g1",
                                  event_id |-> "e1", approval_id |-> NULL,
                                  status |-> "pending" ] >>,
    global_settings      |-> << [ key |-> "emergency_stop", value |-> "true" ] >> ]

\* the same event twice: the second INSERT violates the primary key
SnapDuplicateKey ==
  [ events |-> << [ id |-> "e1", status |-> "upcoming" ],
                  [ id |-> "e1", status |-> "upcoming" ] >> ]

ImportedEntry(id) ==
  [ id |-> id, action |-> "imported", entity_type |-> "system", entity_id |-> NULL,
    details |-> { } ]

\* the current data with a ledger that rewrites the existing entries and adds one
SnapLedger ==
  [ ExportTables(db) EXCEPT
      !["audit_log"] =
         [ i \in 1..Len(@) |-> [ @[i] EXCEPT !.action = "forged" ] ]
         \o << ImportedEntry("x1") >> ]

\* the current data with a ledger whose first row carries nothing but an id
SnapLedgerBareFirst ==
  [ ExportTables(db) EXCEPT
      !["audit_log"] = << [ id |-> "x0" ], ImportedEntry("x2") >> ]

\* a second notification with text in the numeric column read, a column the
\* first row does not carry
SnapTextRead ==
  [ notifications |-> << [ id |-> "n1", type |-> "event_reminder" ],
                         [ id |-> "n2", type |-> "event_reminder", read |-> "yes" ] >> ]

\* rows with a field that is no column; the first row carries nothing else
SnapUnknownField ==
  [ events |-> << [ evil |-> "x" ],
                  [ id |-> "e7", lead_time_days |-> "7", status |-> "upcoming",
                    evil |-> "x" ] >> ]

\* a ledger entry whose details hold an e-mail address
SnapLedgerPII ==
  [ audit_log |-> << [ ImportedEntry("x3") EXCEPT !.details = { Detail("email", "a@b") } ] >> ]

\* the snapshot an export has just returned
SnapExported == IF last.op = "export" /\ last.reason = "exported" THEN { last.tables } ELSE { }

Snapshots ==
  { SnapEmpty, SnapNoApproval, SnapDuplicateKey, SnapLedger, SnapLedgerBareFirst,
    SnapTextRead, SnapUnknownField, SnapLedgerPII } \cup SnapExported

RestoreRequest(data) ==
  [ role |-> "admin", confirm |-> "backup", hasTables |-> TRUE, version |-> "1",
    password |-> CurrentPassword, data |-> [ tables |-> data ] ]

RestoreRequests ==
  { RestoreRequest(d) : d \in Snapshots }
  \cup { [ RestoreRequest(SnapEmpty) EXCEPT !.role = "user" ],
         [ RestoreRequest(SnapEmpty) EXCEPT !.confirm = NULL ],
         [ RestoreRequest(SnapEmpty) EXCEPT !.hasTables = FALSE ],
         [ RestoreRequest(SnapEmpty) EXCEPT !.version = NULL ],
         [ RestoreRequest(SnapEmpty) EXCEPT !.version = "2" ],
         [ RestoreRequest(SnapEmpty) EXCEPT !.password = NULL ],
         [ RestoreRequest(SnapEmpty) EXCEPT !.password = "wrong" ] }

Restore ==
  \E req \in RestoreRequests, failAt \in { 0, 3, 8 }, logFails \in BOOLEAN :
    Respond("restore", req, RestoreHandler(db, req, uuid, failAt, logFails, foreign_keys))

Next ==
  \/ CreateOrder
  \/ EmergencyStop
  \/ PutSetting
  \/ UpdateStatus
  \/ Approve
  \/ DeleteEvent
  \/ Export
  \/ Restore
  \/ UpdateEvent
  \/ MarkRead

Spec == Init /\ [][Next]_vars

(***************************************************************************)
(* Properties                                                              *)
(***************************************************************************)
InFlight == { "pending", "ordered" }

\* the value of the emergency_stop row, NULL when there is no such row
StopValue(d) ==
  IF \E r \in d["global_settings"] : r.key = "emergency_stop"
  THEN (CHOOSE r \in d["global_settings"] : r.key = "emergency_stop").value
  ELSE NULL

\* approval_id names an approval that d holds with status 'approved'
NamesApproved(d, approval_id) ==
  \E a \in d["approvals"] : a.id = approval_id /\ a.status = "approved"

\* C1: a create-order request whose approval_id is missing, null or empty, or
\* names no approval with status 'approved', is rejected (4xx) and leaves
\* every table as it was, whatever its other fields are.
C1_UnapprovedOrderRejected ==
  [][ ( /\ last'.op = "create_order"
        /\ \/ last'.req.approval_id \in { NULL, "" }
           \/ ~NamesApproved(db, last'.req.approval_id) )
      => ( last'.code \in { 400, 403, 404 } /\ db' = db ) ]_vars

C1_Witness ==
  /\ last.op = "create_order"
  /\ last.reason = "approval_required"
  /\ \E a \in db["approvals"] : a.id = last.req.approval_id /\ a.status = "rejected"

\* C2: only create-order inserts an order row, and every order row inserted
\* carries a non-empty approval_id naming an approval that had status
\* 'approved' when the row was inserted (restore included).
C2_OnlyGateInsertsOrders ==
  [][ \A o \in db'["orders"] :
        o.id \notin { x.id : x \in db["orders"] }
        => ( /\ last'.op = "create_order"
             /\ o.approval_id \notin { NULL, "" }
             /\ NamesApproved(db, o.approval_id) ) ]_vars

\* C3: while the emergency_stop setting is 'true', a create-order request of
\* an admin is rejected with the emergency-stop reason, and no create-order
\* request adds or changes an order row or any other row.
C3_StoppedBlocksOrders ==
  [][ ( last'.op = "create_order" /\ StopValue(db) = "true" )
      => ( /\ db' = db
           /\ last'.req.role = "admin"
                => ( last'.code = 403 /\ last'.reason = "emergency_stop" ) ) ]_vars

C3_Witness ==
  /\ last.op = "create_order"
  /\ last.reason = "emergency_stop"
  /\ StopValue(db) = "true"
  /\ NamesApproved(db, last.req.approval_id)
  /\ last.req.gift_recommendation_id \in { g.id : g \in db["gift_recommendations"] }

\* C4: a completed activation sets to 'cancelled' exactly the orders that
\* were 'pending' or 'ordered', leaves every other order row as it was,
\* appends one ledger entry for the flip and one per cancelled order and
\* nothing else to the ledger, and reports the number of cancelled orders.
C4_ActivationCascade ==
  [][ ( last'.op = "emergency_stop" /\ last'.reason = "activated" )
      => LET hit == { o \in db["orders"] : o.status \in InFlight }
             new == db'["audit_log"] \ db["audit_log"]
         IN  /\ db'["orders"] =
                  { IF o \in hit THEN [ o EXCEPT !.status = "cancelled" ] ELSE o
                    : o \in db["orders"] }
             /\ db["audit_log"] \subseteq db'["audit_log"]
             /\ Cardinality(new) = 1 + Cardinality(hit)
             /\ Cardinality({ e \in new : e.action = "emergency_stop" }) = 1
             /\ \A o \in hit :
                  Cardinality({ e \in new : e.action = "cancel_order"
                                            /\ e.entity_id = o.id }) = 1
             /\ last'.n = Cardinality(hit) ]_vars

C4_Witness ==
  /\ last.op = "emergency_stop"
  /\ last.reason = "activated"
  /\ last.n >= 1
  /\ \E o \in db["orders"] : o.status = "cancelled"
  /\ \E o \in db["orders"] : o.status = "delivered"

\* C5: an activation request takes effect as a whole or not at all: after
\* it, also when one of its statements failed, either the store is as
\* before, or the switch is stopped and no order that was 'pending' or
\* 'ordered' is left uncancelled.
C5_ActivationAtomic ==
  [][ ( /\ last'.op = "emergency_stop"
        /\ last'.req.role = "admin"
        /\ last'.req.activate = "true" )
      => \/ db' = db
         \/ /\ StopValue(db') = "true"
            /\ \A o \in db["orders"] :
                 o.status \in InFlight
                 => [ o EXCEPT !.status = "cancelled" ] \in db'["orders"] ]_vars

\* C6: the emergency_stop setting changes value only in an
\* activate/deactivate request; no other request, the generic setting
\* update in particular, changes it.
C6_SwitchOnlyViaStateMachine ==
  [][ StopValue(db') # StopValue(db) => last'.op = "emergency_stop" ]_vars

\* C7: when the restore transaction raises an exception in its delete or
\* insert phase, every table holds exactly the rows it held before the
\* request, the ledger included (no restore_backup entry).
C7_FailedRestoreRollsBack ==
  [][ ( last'.op = "restore" /\ last'.reason = "restore_failed" ) => db' = db ]_vars

C7_Witness ==
  /\ last.op = "restore"
  /\ last.reason = "restore_failed"
  /\ "events" \in DOMAIN last.req.data.tables
  /\ Len(last.req.data.tables["events"]) = 2
  /\ db["orders"] # { }

\* C8: a restore request without tables or version, with a version other
\* than 1, without the password or with a wrong one, of a caller who is not
\* an admin, or without the confirmation header is rejected before the
\* transaction: no table changes and no ledger entry is written.
C8_InvalidRestoreRejected ==
  [][ ( /\ last'.op = "restore"
        /\ \/ ~last'.req.hasTables
           \/ last'.req.version # "1"
           \/ last'.req.password # CurrentPassword
           \/ last'.req.role # "admin"
           \/ last'.req.confirm # "backup" )
      => ( /\ db' = db
           /\ last'.code \in { 400, 401, 403 }
           /\ last'.reason \notin { "restore_failed", "restored", "exception" } ) ]_vars

C8_Witness ==
  /\ last.op = "restore"
  /\ last.reason = "incorrect_password"
  /\ db["orders"] # { }

\* C9: a successful restore keeps every ledger row as it was, ignores a
\* snapshot entry whose id the ledger already holds, and adds every snapshot
\* entry whose id is new.
C9_RestoreAppendsLedger ==
  [][ ( last'.op = "restore" /\ last'.reason = "restored" )
      => LET rows == SnapshotRows(last'.req.data, "audit_log")
             old  == { e.id : e \in db["audit_log"] }
         IN  /\ db["audit_log"] \subseteq db'["audit_log"]
             /\ \A i \in 1..Len(rows) :
                  /\ rows[i].id \in old
                       => Cardinality({ e \in db'["audit_log"] : e.id = rows[i].id }) = 1
                  /\ rows[i].id \notin old
                       => \E e \in db'["audit_log"] : e.id = rows[i].id ]_vars

\* C10: no request removes or changes a ledger row: every row of audit_log
\* is still there, with all its fields, after any request.
C10_LedgerAppendOnly ==
  [][ db["audit_log"] \subseteq db'["audit_log"] ]_vars

C10_Witness ==
  /\ last.op = "restore"
  /\ last.reason = "restored"
  /\ Len(SnapshotRows(last.req.data, "audit_log")) = 0
  /\ \E e \in db["audit_log"] : e.id = "s1"
  /\ db["events"] = { }

\* the rows of a snapshot table that hold something other than a number or
\* null in a numeric column of the table
TextInNumeric(t, row) ==
  \E c \in (DOMAIN row \cap COLUMN_TYPES) \cap ALLOWED_COLUMNS[t] :
    row[c] \notin JsNumbers \cup { NULL }

\* C11: restoring the snapshot that the export just before has returned
\* leaves every table other than audit_log with the rows it had, and
\* audit_log with at least the rows it had.
C11_RoundTrip ==
  [][ ( /\ last.op = "export" /\ last.reason = "exported"
        /\ last'.op = "restore"
        /\ last'.req.data.tables = last.tables )
      => ( /\ \A t \in Tables \ { "audit_log" } : db'[t] = db[t]
           /\ db["audit_log"] \subseteq db'["audit_log"] ) ]_vars

\* C12: a restore that answers success has appended exactly one ledger
\* entry of its own (one that is no entry of the snapshot), with action
\* restore_backup, and a restore whose transaction failed has appended no
\* restore_backup entry: the entry is written after the commit.
C12_RestoreLogged ==
  [][ last'.op = "restore"
      => LET rows == SnapshotRows(last'.req.data, "audit_log")
             snap == { Cell(rows[i], "id") : i \in 1..Len(rows) }
             new  == db'["audit_log"] \ db["audit_log"]
             own  == { e \in new : e.id \notin snap }
         IN  /\ last'.reason = "restored"
                  => ( /\ Cardinality(own) = 1
                       /\ \A e \in own : e.action = "restore_backup"
                                         /\ e.entity_type = "system" )
             /\ last'.reason = "restore_failed"
                  => ~\E e \in new : e.action = "restore_backup" ]_vars

C12_Witness ==
  /\ last.op = "restore"
  /\ last.reason = "restored"
  /\ \E e \in db["audit_log"] : e.action = "restore_backup" /\ e.id = Uuid(uuid)
  /\ last.n >= 1

\* C13: after a successful restore, a snapshot row with text in a numeric
\* column is not in its table and is counted in typeErrors, and the other
\* rows of a snapshot table with such a row are in the table.
C13_TypeRejection ==
  [][ ( last'.op = "restore" /\ last'.reason = "restored" )
      => /\ \A t \in Tables \ { "audit_log" } :
              LET rows == SnapshotRows(last'.req.data, t)
                  pk   == PrimaryKey(t)
                  bad  == { i \in 1..Len(rows) : TextInNumeric(t, rows[i]) }
              IN  /\ \A i \in bad :
                       ~\E x \in db'[t] : x[pk] = Cell(rows[i], pk)
                  /\ bad # { }
                       => \A i \in (1..Len(rows)) \ bad :
                            \E x \in db'[t] : x[pk] = Cell(rows[i], pk)
         /\ last'.typeErrors =
              Cardinality({ p \in Tables \X (1..4) :
                              /\ p[2] <= Len(SnapshotRows(last'.req.data, p[1]))
                              /\ TextInNumeric(p[1], SnapshotRows(last'.req.data, p[1])[p[2]]) })
    ]_vars

\* C14: after a successful restore, a snapshot row that carries a field
\* outside the allowlist of its table (and a primary key) is in the table,
\* with the snapshot's value in every allowlisted field it carries.
C14_UnknownFieldDropped ==
  [][ ( last'.op = "restore" /\ last'.reason = "restored" )
      => \A t \in Tables \ { "audit_log" } :
           LET rows == SnapshotRows(last'.req.data, t)
               pk   == PrimaryKey(t)
           IN  \A i \in 1..Len(rows) :
                 ( /\ DOMAIN rows[i] \ ALLOWED_COLUMNS[t] # { }
                   /\ pk \in DOMAIN rows[i]
                   /\ ~TextInNumeric(t, rows[i]) )
                 => \E x \in db'[t] :
                      \A c \in DOMAIN rows[i] \cap ALLOWED_COLUMNS[t] : x[c] = rows[i][c] ]_vars

\* C15: every ledger entry that a request other than restore appends holds
\* '[redacted]' as the value of every sensitive key of its details, at any
\* depth, and nothing below such a key.
C15_Redaction ==
  [][ last'.op # "restore"
      => \A e \in db'["audit_log"] \ db["audit_log"] :
           \A l \in e.details :
             \A i \in 1..Len(l.path) :
               l.path[i] \in { "email", "phone", "birthday", "anniversary", "other_date" }
               => ( i = Len(l.path) /\ l.value = "[redacted]" ) ]_vars

\* C16: a create-order request that does not answer 201 leaves no order
\* row, no recommendation status change, no ledger entry and no
\* notification: the store is as before the request.
C16_CreateOrderAtomic ==
  [][ ( last'.op = "create_order" /\ last'.code # 201 ) => db' = db ]_vars

\* C17: a create-order request that answers 201 adds exactly one order row,
\* which references the request's recommendation, event and approval, sets
\* that recommendation's status to 'purchased', appends exactly one ledger
\* entry (create_order) and one notification, and changes nothing else.
C17_CreateOrderEffect ==
  [][ ( last'.op = "create_order" /\ last'.code = 201 )
      => LET req     == last'.req
             orders  == db'["orders"] \ db["orders"]
             entries == db'["audit_log"] \ db["audit_log"]
             notifs  == db'["notifications"] \ db["notifications"]
         IN  /\ db["orders"] \subseteq db'["orders"]
             /\ Cardinality(orders) = 1
             /\ \A o \in orders :
                  /\ o.gift_recommendation_id = req.gift_recommendation_id
                  /\ o.event_id = req.event_id
                  /\ o.approval_id = req.approval_id
                  /\ o.id \notin { x.id : x \in db["orders"] }
                  /\ \A e \in entries : e.action = "create_order" /\ e.entity_id = o.id
                  /\ \A n \in notifs : n.order_id = o.id
             /\ db'["gift_recommendations"] =
                  { IF g.id = req.gift_recommendation_id
                    THEN [ g EXCEPT !.status = "purchased" ] ELSE g
                    : g \in db["gift_recommendations"] }
             /\ db["audit_log"] \subseteq db'["audit_log"]
             /\ Cardinality(entries) = 1
             /\ db["notifications"] \subseteq db'["notifications"]
             /\ Cardinality(notifs) = 1
             /\ \A t \in { "events", "approvals", "global_settings" } : db'[t] = db[t] ]_vars

C17_Witness ==
  /\ last.op = "create_order"
  /\ last.code = 201
  /\ Cardinality(db["orders"]) = 3
  /\ \E o \in db["orders"] : o.status = "delivered"

\* C18: every request that changes the store appends a ledger entry in the
\* same step, also when one of its statements fails.
C18_ChangeIsLogged ==
  [][ db' # db => db'["audit_log"] \ db["audit_log"] # { } ]_vars

\* C19: foreign-key checking is on in every state between two requests:
\* after a restore, committed or rolled back, as after any other request.
C19_ForeignKeysOn == foreign_keys = TRUE

C19_Witness ==
  /\ last.op = "restore"
  /\ last.reason = "restore_failed"
  /\ foreign_keys = TRUE
  /\ "events" \in DOMAIN last.req.data.tables
  /\ db["events"] # { }

\* the switch request repeats the state the switch is in
RepeatsSwitchState ==
  /\ last'.op = "emergency_stop"
  /\ \/ last'.reason = "activated" /\ StopValue(db) = "true"
     \/ last'.reason = "deactivated" /\ StopValue(db) = "false"

\* C20 (as stated): a switch request that repeats the state of the switch
\* changes no table other than audit_log.
C20_RepeatOnlyLogs ==
  [][ RepeatsSwitchState => \A t \in Tables \ { "audit_log" } : db'[t] = db[t] ]_vars

\* C20 (amended): a switch request that repeats the state of the switch
\* leaves the setting, events, recommendations and approvals as they were,
\* appends one emergency_stop ledger entry and one emergency_stop
\* notification; a deactivation changes nothing else, an activation also
\* cancels the orders that are 'pending' or 'ordered', with one ledger entry
\* each, and changes nothing else.
C20_RepeatLogsAndNotifies ==
  [][ RepeatsSwitchState
      => LET hit     == IF last'.reason = "activated"
                        THEN { o \in db["orders"] : o.status \in InFlight } ELSE { }
             entries == db'["audit_log"] \ db["audit_log"]
             notifs  == db'["notifications"] \ db["notifications"]
         IN  /\ \A t \in { "global_settings", "events", "gift_recommendations",
                            "approvals" } : db'[t] = db[t]
             /\ db["notifications"] \subseteq db'["notifications"]
             /\ Cardinality(notifs) = 1
             /\ \A n \in notifs : n.type = "emergency_stop"
             /\ db["audit_log"] \subseteq db'["audit_log"]
             /\ Cardinality({ e \in entries : e.action = "emergency_stop" }) = 1
             /\ Cardinality(entries) = 1 + Cardinality(hit)
             /\ db'["orders"] =
                  { IF o \in hit THEN [ o EXCEPT !.status = "cancelled" ] ELSE o
                    : o \in db["orders"] } ]_vars

C20_Witness ==
  /\ last.op = "emergency_stop"
  /\ last.reason = "activated"
  /\ ops = 2
  /\ Cardinality({ e \in db["audit_log"] :
                     /\ e.action = "emergency_stop"
                     /\ Detail("activated", "true") \in e.details }) = 2

\* C21: a successful export answers a document of version 1 whose tables
\* hold, for every exported table, exactly the rows the table had, each once
\* and unchanged; it changes nothing but audit_log, which gains exactly one
\* export_backup entry holding the format and the table and row counts, and
\* that entry is not among the exported ledger rows.
C21_ExportFrame ==
  [][ ( last'.op = "export" /\ last'.reason = "exported" )
      => LET out == last'.tables
             new == db'["audit_log"] \ db["audit_log"]
             all == UNION { { << t, r >> : r \in db[t] } : t \in Tables }
         IN  /\ last'.version = "1"
             /\ DOMAIN out = Tables
             /\ \A t \in Tables :
                  /\ { out[t][i] : i \in 1..Len(out[t]) } = db[t]
                  /\ Len(out[t]) = Cardinality(db[t])
             /\ \A t \in Tables \ { "audit_log" } : db'[t] = db[t]
             /\ db["audit_log"] \subseteq db'["audit_log"]
             /\ Cardinality(new) = 1
             /\ \A e \in new :
                  /\ e.action = "export_backup"
                  /\ { l.path : l \in e.details }
                       = { << "format" >>, << "tables" >>, << "total_rows" >> }
                  /\ Detail("total_rows", ToString(Cardinality(all))) \in e.details
                  /\ \A i \in 1..Len(out["audit_log"]) : out["audit_log"][i] # e ]_vars

C21_Witness ==
  /\ last.op = "export"
  /\ last.reason = "exported"
  /\ Len(last.tables["orders"]) = 2
  /\ Len(last.tables["audit_log"]) >= 3
  /\ \E e \in db["audit_log"] : e.action = "export_backup"

\* an order of d is in flight
SomeInFlight(d) == \E o \in d["orders"] : o.status \in InFlight

\* C22: a stopped switch has no order in flight: while the switch stays
\* stopped, no request (status update, restore, setting update, create
\* order) brings an order into status 'pending' or 'ordered'.
C22_StoppedKeepsNoneInFlight ==
  [][ ( /\ StopValue(db) = "true" /\ ~SomeInFlight(db)
        /\ StopValue(db') = "true" )
      => ~SomeInFlight(db') ]_vars

\* C23: the emergency_stop row of global_settings exists in every state
\* between two requests.
C23_StopRowExists == \E r \in db["global_settings"] : r.key = "emergency_stop"

(***************************************************************************)
(* Concurrent requests on the Node.js event loop                           *)
(*                                                                         *)
(* A handler runs from its first line until it returns or reaches an       *)
(* await; better-sqlite3 calls are synchronous, so a handler yields only   *)
(* at an await of its own.  A task is a request in progress: the writes    *)
(* its handler will issue (stmts), the number it has issued (pc), and the  *)
(* order ids it has inserted (made).  No storage failure is injected.      *)
(***************************************************************************)
\* every database call returns a promise that the handler awaits
AwaitsAfter_EveryStatement(op, pc) == TRUE

\* the handler awaits after having issued pc writes: only the restore
\* handler does, at  await bcrypt.compare(...), before its first write
AwaitsAfter(op, pc) == op = "restore" /\ pc = 0

\* the writes a handler issues for a request on store d, none when it rejects
TaskStmts(op, req, d, u) ==
  CASE op = "create_order" ->
         IF CreateOrderGate(d, req) = "pass" THEN CreateOrderStmts(req, u) ELSE << >>
    [] op = "emergency_stop" ->
         IF requireAdmin(req.role)
         THEN EmergencyStopStmts(req.activate,
                                 IF JsFalsy(req.activate) THEN << >>
                                 ELSE RowList(PendingOrders(d)), u)
         ELSE << >>
    [] op = "update_status" ->
         IF req.status \in OrderStatuses /\ req.id \in Ids(d, "orders")
         THEN UpdateStatusStmts(CHOOSE o \in d["orders"] : o.id = req.id, req, u)
         ELSE << >>
    [] op = "approve" ->
         IF ApprovalHandler(d, req, u, 0).code = 201 THEN ApprovalStmts(req, u) ELSE << >>
    [] op = "put_setting" ->
         IF requireAdmin(req.role) /\ req.key \in ALLOWED_SETTINGS_KEYS /\ req.value # NULL
         THEN PutSettingStmts(req, u) ELSE << >>
    [] op = "restore" ->
         IF RestoreValidation(req) = "pass"
         THEN RestoreStmts(req.data)
              \o RestoreLogStmts(req.data, Len(InsertStmts(req.data, 1)), u)
         ELSE << >>

ConcRequests ==
  { [ op |-> "emergency_stop", req |-> [ role |-> "admin", activate |-> "true" ] ],
    [ op |-> "create_order",
      req |-> [ role |-> "admin", gift_recommendation_id |-> "g1", event_id |-> "e1",
                approval_id |-> Uuid(1) ] ],
    [ op |-> "update_status", req |-> [ id |-> Uuid(13), status |-> "pending" ] ],
    [ op |-> "approve",
      req |-> [ event_id |-> "e1", gift_recommendation_id |-> "g1", status |-> "approved" ] ],
    [ op |-> "put_setting",
      req |-> [ role |-> "admin", key |-> "default_lead_time_days", value |-> "7" ] ],
    [ op |-> "restore", req |-> RestoreRequest(SnapNoApproval) ] }

NoneRunning == \A j \in 1..MaxTasks : tasks[j].phase # "running"

\* the phase of a task that has issued pc of its writes
PhaseAfter(op, stmts, pc) ==
  IF pc >= Len(stmts) THEN "done"
  ELSE IF AwaitsAfter(op, pc) THEN "awaiting" ELSE "running"

\* a request arrives and its handler runs up to its first write or await
Start(i) ==
  /\ tasks[i].phase = "new"
  /\ NoneRunning
  /\ \E r \in ConcRequests :
       LET stmts == TaskStmts(r.op, r.req, db, uuid)
       IN  /\ tasks' = [ tasks EXCEPT ![i] =
                           [ phase |-> PhaseAfter(r.op, stmts, 0), op |-> r.op, req |-> r.req,
                             stmts |-> stmts, pc |-> 0, made |-> { } ] ]
           /\ uuid' = uuid + Len(stmts) + 1
  /\ UNCHANGED << db, foreign_keys, ops, last >>

\* the running handler, or a handler whose await has settled while no
\* handler is running, issues its next write
Step(i) ==
  /\ \/ tasks[i].phase = "running"
     \/ tasks[i].phase = "awaiting" /\ NoneRunning
  /\ LET t == tasks[i]
         r == Exec(db, t.stmts[t.pc + 1], TRUE)
     IN  /\ db' = r.db
         /\ tasks' = [ tasks EXCEPT ![i] =
                         [ t EXCEPT !.pc = @ + 1,
                                    !.phase = IF r.err THEN "done"
                                              ELSE PhaseAfter(t.op, t.stmts, t.pc + 1),
                                    !.made = @ \cup ( Ids(r.db, "orders")
                                                      \ Ids(db, "orders") ) ] ]
  /\ UNCHANGED << foreign_keys, uuid, ops, last >>

InitConc ==
  /\ db = LeadTimeE3.db
  /\ uuid = 18
  /\ foreign_keys = getDb.foreign_keys
  /\ ops = 0
  /\ last = [ op |-> "none", code |-> 0, reason |-> "none", n |-> 0, changed |-> FALSE,
              req |-> [ role |-> "none" ], tables |-> NoTables, typeErrors |-> 0,
              version |-> NULL ]
  /\ tasks = [ i \in 1..MaxTasks |-> NewTask ]

NextConc ==
  \/ \E i \in 1..MaxTasks : Start(i)
  \/ \E i \in 1..MaxTasks : Step(i)

SpecConc == InitConc /\ [][NextConc]_vars

\* task j is a restore or an activation between its first and its last write
MidWrites(j) ==
  /\ tasks[j].op \in { "restore", "emergency_stop" }
  /\ tasks[j].pc >= 1
  /\ tasks[j].phase # "done"

\* C24: no write of another request takes effect while a restore or an
\* activation is between its first and its last write, and an order that a
\* create-order request has inserted is cancelled once an activation has
\* completed and the switch is stopped.
C24_ExclusiveWrites ==
  /\ [][ \A i, j \in 1..MaxTasks :
           ( i # j /\ tasks'[i].pc # tasks[i].pc ) => ~MidWrites(j) ]_vars
  /\ [] ( \A i, j \in 1..MaxTasks :
            ( /\ tasks[i].op = "create_order"
              /\ tasks[i].phase = "done"
              /\ tasks[j].op = "emergency_stop"
              /\ tasks[j].phase = "done"
              /\ StopValue(db) = "true" )
            => \A o \in db["orders"] : o.id \in tasks[i].made => o.status = "cancelled" )

C24_Witness ==
  \E i, j \in 1..MaxTasks :
    /\ tasks[i].op = "create_order"
    /\ tasks[j].op = "emergency_stop"
    /\ tasks[j].phase = "done"
    /\ \E o \in db["orders"] : o.id \in tasks[i].made /\ o.status = "cancelled"

\* C25: after a successful restore, each table outside the protected ones
\* holds exactly the snapshot rows of that table that carry no text in a
\* numeric field (none when the snapshot has no rows for it), and each of
\* them holds the snapshot's value in every allowlisted field it carries,
\* whatever fields the first row of the table carries.
C25_RestoreExact ==
  [][ ( last'.op = "restore" /\ last'.reason = "restored" )
      => \A t \in Tables \ RESTORE_PROTECTED_TABLES :
           LET rows == SnapshotRows(last'.req.data, t)
               pk   == PrimaryKey(t)
               good == { i \in 1..Len(rows) :
                           pk \in DOMAIN rows[i] /\ ~TextInNumeric(t, rows[i]) }
           IN  /\ { x[pk] : x \in db'[t] } \ { NULL } = { rows[i][pk] : i \in good }
               /\ \A i \in good :
                    \E x \in db'[t] :
                      \A c \in DOMAIN rows[i] \cap ALLOWED_COLUMNS[t] : x[c] = rows[i][c]
    ]_vars

\* C26: the order that a create-order request answering 201 inserts names an
\* approval given for the same event and the same gift recommendation.
C26_ApprovalMatchesOrder ==
  [][ ( last'.op = "create_order" /\ last'.code = 201 )
      => \A o \in db'["orders"] \ db["orders"] :
           \E a \in db["approvals"] :
             /\ a.id = o.approval_id
             /\ a.event_id = o.event_id
             /\ a.gift_recommendation_id = o.gift_recommendation_id ]_vars

\* C27: no ledger entry holds, under a sensitive key of its details, at any
\* depth, anything but '[redacted]'.
C27_NoSensitiveValueInLedger ==
  \A e \in db["audit_log"] :
    \A l \in e.details :
      \A i \in 1..Len(l.path) :
        l.path[i] \in PII_FIELDS => ( i = Len(l.path) /\ l.value = "[redacted]" )

\* C28: deleting an existing event, with no storage failure, answers 200,
\* leaves no approval and no order of that event, and leaves the approvals
\* and orders of the other events as they were.
C28_DeleteEventCascades ==
  [][ ( /\ last'.op = "delete_event"
        /\ last'.req.fault = 0
        /\ last'.req.id \in Ids(db, "events") )
      => /\ last'.code = 200
         /\ \A t \in { "approvals", "orders" } :
              /\ \A x \in db'[t] : x.event_id # last'.req.id
              /\ { x \in db'[t] : x.event_id # last'.req.id }
                   = { x \in db[t] : x.event_id # last'.req.id } ]_vars

\* C29: a create-order request answering 201 names an approval that no
\* order names yet, so no two orders share an approval.
C29_ApprovalUsedOnce ==
  [][ ( last'.op = "create_order" /\ last'.code = 201 )
      => \A o \in db'["orders"] \ db["orders"] :
           \A x \in db["orders"] : x.approval_id # o.approval_id ]_vars

\* C30: the switch leaves 'true' on an emergency-stop request only when the
\* request carries activate = false.
C30_ExplicitDeactivation ==
  [][ ( /\ last'.op = "emergency_stop"
        /\ StopValue(db) = "true"
        /\ StopValue(db') # "true" )
      => last'.req.activate = "false" ]_vars

====
